---- MODULE Spec2Model ----
(***************************************************************************)
(* Model of the itemizer crate: Item (src/src/item.rs) and Itemizer<T>     *)
(* (src/src/itemizer.rs).  One Itemizer is driven by a caller that issues  *)
(* id_of / id_of_opt / value_of / len / iter calls in any order (Spec).    *)
(* SpecTwo puts further instances beside it, SpecItem exercises Item on    *)
(* its own, SpecRuns runs the program twice on the same id_of arguments.   *)
(*                                                                         *)
(* Rust indexes from 0, TLA+ sequences from 1: element k of a Vec is       *)
(* vec[k + 1] here.                                                        *)
(***************************************************************************)
EXTENDS Integers, Sequences, FiniteSets, TLC

\* The largest value of the id type.  The source uses u32 (2^32 - 1); the
\* model keeps the wrap-around arithmetic and shrinks the width.
MaxItemId == 3

\* u32 arithmetic is arithmetic modulo this.
U32Modulus == MaxItemId + 1

\* The values of type T the caller may pass; enough of them to drive the
\* counter to its limit and then present one more new value.
Values == 1 .. (MaxItemId + 1)

VARIABLES
    next_item_id,    \* Itemizer.next_item_id : u32
    item_str_to_id,  \* Itemizer.item_str_to_id : FnvHashMap<T, Item>
    item_id_to_str,  \* Itemizer.item_id_to_str : Vec<T>
    overflow_checks, \* build profile: TRUE = overflow panics, FALSE = wraps
    panicked,        \* a call has panicked; the run has ended
    last,            \* the most recent call: op, arg, outcome, ret, pre-state
    prev,            \* the call before it
    passed,          \* the values passed to id_of, in order of first passing
    issued,          \* value -> the Item its first returning id_of call gave
    others,          \* further Itemizer instances: name -> the three fields
    other_passed,    \* per further instance: as passed
    other_issued,    \* per further instance: as issued
    item_in,         \* a pair of raw ids handed to Item::with_id
    item_out,        \* what with_id, as_index, == and cmp made of the pair
    twin,            \* a second run of the program: its Itemizer's fields
    twin_ret         \* the second run's most recent id_of outcome and Item

itemizer_vars == << next_item_id, item_str_to_id, item_id_to_str,
                    overflow_checks, panicked, last, prev, passed, issued >>

other_vars == << others, other_passed, other_issued >>

item_vars == << item_in, item_out >>

twin_vars == << twin, twin_ret >>

vars == << itemizer_vars, other_vars, item_vars, twin_vars >>

----------------------------------------------------------------------------
\* Item (item.rs)

\* with_id with one slip: the id is narrowed to a smaller type on the way in.
with_id_narrowed(id) == [id |-> id % 2]

with_id(id) == [id |-> id]

as_index(item) == item.id

\* derive(PartialEq, Eq): field by field
item_eq(a, b) == a.id = b.id

\* derive(PartialOrd, Ord): the fields in order, here the one u32
item_cmp(a, b) ==
    IF a.id < b.id THEN "Less"
    ELSE IF a.id = b.id THEN "Equal"
    ELSE "Greater"

----------------------------------------------------------------------------
\* Option<X> as a sequence of length 0 or 1

None == << >>

Some(x) == << x >>

\* FnvHashMap<T, Item> as a function over its key set

EmptyMap == [k \in {} |-> with_id(0)]

map_get(map, key) == IF key \in DOMAIN map THEN Some(map[key]) ELSE None

map_insert(map, key, value) ==
    [k \in (DOMAIN map) \cup {key} |-> IF k = key THEN value ELSE map[k]]

\* Vec<T>

\* push with one slip: the value goes in at the front.
vec_push_front(vec, value) == << value >> \o vec

vec_push(vec, value) == Append(vec, value)

vec_index(vec, index) == IF index < Len(vec) THEN Some(vec[index + 1]) ELSE None

Range(seq) == {seq[k] : k \in 1 .. Len(seq)}

----------------------------------------------------------------------------
\* Itemizer<T> (itemizer.rs).  Each method is an operator on the record of
\* the three fields; a mutating method yields the new record as well.

Self == [next_item_id   |-> next_item_id,
         item_str_to_id |-> item_str_to_id,
         item_id_to_str |-> item_id_to_str]

new == [next_item_id   |-> 0,
        item_str_to_id |-> EmptyMap,
        item_id_to_str |-> << >>]

Returned(self, value) == [self |-> self, outcome |-> "returned", ret |-> value]

Panicked(self) == [self |-> self, outcome |-> "panicked", ret |-> None]

\* Variants of id_of, each with one slip, used to show that the properties
\* below depend on what id_of does.

\* The Item stored in the forward map is built from the counter after the
\* increment.
id_of_stores_incremented(self, item, checks) ==
    LET found == map_get(self.item_str_to_id, item) IN
    IF found # None
    THEN Returned(self, found[1])
    ELSE
        LET id == self.next_item_id IN
        IF checks /\ id + 1 > MaxItemId
        THEN Panicked(self)
        ELSE
            LET s1 == [self EXCEPT !.next_item_id = (id + 1) % U32Modulus]
                s2 == [s1 EXCEPT
                          !.item_str_to_id =
                              map_insert(@, item, with_id(s1.next_item_id))]
                s3 == [s2 EXCEPT !.item_id_to_str = vec_push(@, item)]
            IN
            IF Len(s3.item_id_to_str) = (id + 1) % U32Modulus
            THEN Returned(s3, with_id(id))
            ELSE Panicked(s3)

\* The counter is not incremented.
id_of_no_increment(self, item, checks) ==
    LET found == map_get(self.item_str_to_id, item) IN
    IF found # None
    THEN Returned(self, found[1])
    ELSE
        LET id == self.next_item_id
            s2 == [self EXCEPT
                      !.item_str_to_id = map_insert(@, item, with_id(id))]
            s3 == [s2 EXCEPT !.item_id_to_str = vec_push(@, item)]
        IN
        IF Len(s3.item_id_to_str) = (id + 1) % U32Modulus
        THEN Returned(s3, with_id(id))
        ELSE Panicked(s3)

\* The counter is incremented before the lookup, so also on a hit.
id_of_increments_on_hit(self, item, checks) ==
    LET id == self.next_item_id
        found == map_get(self.item_str_to_id, item)
    IN
    IF checks /\ id + 1 > MaxItemId
    THEN Panicked(self)
    ELSE
        LET s1 == [self EXCEPT !.next_item_id = (id + 1) % U32Modulus] IN
        IF found # None
        THEN Returned(s1, found[1])
        ELSE
            LET s2 == [s1 EXCEPT
                          !.item_str_to_id = map_insert(@, item, with_id(id))]
                s3 == [s2 EXCEPT !.item_id_to_str = vec_push(@, item)]
            IN
            IF Len(s3.item_id_to_str) = (id + 1) % U32Modulus
            THEN Returned(s3, with_id(id))
            ELSE Panicked(s3)

\* The Item returned for a new value is built from the counter after the
\* increment.
id_of_returns_incremented(self, item, checks) ==
    LET found == map_get(self.item_str_to_id, item) IN
    IF found # None
    THEN Returned(self, found[1])
    ELSE
        LET id == self.next_item_id IN
        IF checks /\ id + 1 > MaxItemId
        THEN Panicked(self)
        ELSE
            LET s1 == [self EXCEPT !.next_item_id = (id + 1) % U32Modulus]
                s2 == [s1 EXCEPT
                          !.item_str_to_id = map_insert(@, item, with_id(id))]
                s3 == [s2 EXCEPT !.item_id_to_str = vec_push(@, item)]
            IN
            IF Len(s3.item_id_to_str) = (id + 1) % U32Modulus
            THEN Returned(s3, with_id(s3.next_item_id))
            ELSE Panicked(s3)

\* No lookup: every call takes the insert path.
id_of_no_lookup(self, item, checks) ==
    LET id == self.next_item_id IN
    IF checks /\ id + 1 > MaxItemId
    THEN Panicked(self)
    ELSE
        LET s1 == [self EXCEPT !.next_item_id = (id + 1) % U32Modulus]
            s2 == [s1 EXCEPT
                      !.item_str_to_id = map_insert(@, item, with_id(id))]
            s3 == [s2 EXCEPT !.item_id_to_str = vec_push(@, item)]
        IN
        IF Len(s3.item_id_to_str) = (id + 1) % U32Modulus
        THEN Returned(s3, with_id(id))
        ELSE Panicked(s3)

\* The assertion compares the length with the id, as if ids started at 1.
id_of_asserts_unshifted(self, item, checks) ==
    LET found == map_get(self.item_str_to_id, item) IN
    IF found # None
    THEN Returned(self, found[1])
    ELSE
        LET id == self.next_item_id IN
        IF checks /\ id + 1 > MaxItemId
        THEN Panicked(self)
        ELSE
            LET s1 == [self EXCEPT !.next_item_id = (id + 1) % U32Modulus]
                s2 == [s1 EXCEPT
                          !.item_str_to_id = map_insert(@, item, with_id(id))]
                s3 == [s2 EXCEPT !.item_id_to_str = vec_push(@, item)]
            IN
            IF Len(s3.item_id_to_str) = id
            THEN Returned(s3, with_id(id))
            ELSE Panicked(s3)

id_of(self, item, checks) ==
    LET found == map_get(self.item_str_to_id, item) IN
    IF found # None
    THEN Returned(self, found[1])
    ELSE
        LET id == self.next_item_id IN
        IF checks /\ id + 1 > MaxItemId
        THEN Panicked(self)
        ELSE
            LET s1 == [self EXCEPT !.next_item_id = (id + 1) % U32Modulus]
                s2 == [s1 EXCEPT
                          !.item_str_to_id = map_insert(@, item, with_id(id))]
                s3 == [s2 EXCEPT !.item_id_to_str = vec_push(@, item)]
            IN
            IF Len(s3.item_id_to_str) = (id + 1) % U32Modulus
            THEN Returned(s3, with_id(id))
            ELSE Panicked(s3)

\* id_of_opt with one slip: id 0 is taken for "no id".
id_of_opt_zero_is_absent(self, item) ==
    LET found == map_get(self.item_str_to_id, item) IN
    IF found # None /\ as_index(found[1]) # 0 THEN Some(found[1]) ELSE None

id_of_opt(self, item) ==
    LET found == map_get(self.item_str_to_id, item) IN
    IF found # None THEN Some(found[1]) ELSE None

\* value_of with one slip: ids are taken to start at 1.
value_of_ids_from_one(self, id) ==
    LET found == IF as_index(id) = 0 THEN None
                 ELSE vec_index(self.item_id_to_str, as_index(id) - 1)
    IN
    IF found # None THEN Returned(self, found[1]) ELSE Panicked(self)

\* value_of with one slip: an index past the end wraps around to the start.
value_of_wraps(self, id) ==
    LET found == IF self.item_id_to_str = << >> THEN None
                 ELSE vec_index(self.item_id_to_str,
                                as_index(id) % Len(self.item_id_to_str))
    IN
    IF found # None THEN Returned(self, found[1]) ELSE Panicked(self)

value_of(self, id) ==
    LET found == vec_index(self.item_id_to_str, as_index(id)) IN
    IF found # None THEN Returned(self, found[1]) ELSE Panicked(self)

len(self) == Len(self.item_id_to_str)

\* iter with one slip: it walks the keys of the forward map (as the Debug
\* impl does), whose order is the hash table's, not the order of insertion.
RECURSIVE keys_in_table_order(_)
keys_in_table_order(keys) ==
    IF keys = {} THEN << >>
    ELSE LET k == CHOOSE x \in keys : \A y \in keys : x <= y
         IN << k >> \o keys_in_table_order(keys \ {k})

iter_over_forward_map(self) ==
    [slice |-> keys_in_table_order(DOMAIN self.item_str_to_id), pos |-> 0]

\* std::slice::Iter: a cursor over the Vec; next yields the element under
\* the cursor and advances, or None at the end.
iter(self) == [slice |-> self.item_id_to_str, pos |-> 0]

iter_next(it) ==
    IF it.pos < Len(it.slice)
    THEN [it |-> [it EXCEPT !.pos = @ + 1], item |-> Some(it.slice[it.pos + 1])]
    ELSE [it |-> it, item |-> None]

\* The values an iterator yields until it returns None.
RECURSIVE collect(_)
collect(it) ==
    LET step == iter_next(it) IN
    IF step.item = None THEN << >> ELSE << step.item[1] >> \o collect(step.it)

----------------------------------------------------------------------------
\* The caller

\* The further instances of the test test_different_types and of the
\* spec's scenario 5: one over the same value type as the first Itemizer,
\* one over another type.
OtherInstances == {"same_type", "other_type"}

OtherValues(inst) ==
    IF inst = "same_type" THEN {v \in Values : v <= 2} ELSE {"hello", "world"}

\* item_out before anything was done with the pair.
ItemNothingYet == [items |-> None, index |-> None, eq |-> None, cmp |-> None]

Call(op, arg, outcome, ret) ==
    [op |-> op, arg |-> arg, outcome |-> outcome, ret |-> ret, pre |-> Self]

Init ==
    /\ next_item_id = new.next_item_id
    /\ item_str_to_id = new.item_str_to_id
    /\ item_id_to_str = new.item_id_to_str
    /\ overflow_checks \in BOOLEAN
    /\ panicked = FALSE
    /\ last = [op |-> "new", arg |-> None, outcome |-> "returned",
               ret |-> None, pre |-> new]
    /\ prev = [op |-> "none", arg |-> None, outcome |-> "returned",
               ret |-> None, pre |-> new]
    /\ passed = << >>
    /\ issued = EmptyMap
    /\ others = [inst \in OtherInstances |-> new]
    /\ other_passed = [inst \in OtherInstances |-> << >>]
    /\ other_issued = [inst \in OtherInstances |-> EmptyMap]
    /\ item_in = << 0, 0 >>
    /\ item_out = ItemNothingYet
    /\ twin = new
    /\ twin_ret = [outcome |-> "returned", ret |-> None]

IdOfCall(item) ==
    /\ ~panicked
    /\ LET r == id_of(Self, item, overflow_checks) IN
        /\ next_item_id' = r.self.next_item_id
        /\ item_str_to_id' = r.self.item_str_to_id
        /\ item_id_to_str' = r.self.item_id_to_str
        /\ panicked' = (r.outcome = "panicked")
        /\ last' = Call("id_of", item, r.outcome, r.ret)
        /\ passed' = IF item \in Range(passed) THEN passed
                     ELSE Append(passed, item)
        /\ issued' = IF r.outcome = "returned" /\ item \notin DOMAIN issued
                     THEN map_insert(issued, item, r.ret)
                     ELSE issued
    /\ prev' = last
    /\ UNCHANGED overflow_checks

IdOf(item) ==
    /\ IdOfCall(item)
    /\ UNCHANGED << other_vars, item_vars, twin_vars >>

\* The id_of_opt call with one slip: it is written with id_of, which
\* interns a value it does not find.
IdOfOpt_interns(item) ==
    /\ ~panicked
    /\ LET r == id_of(Self, item, overflow_checks) IN
        /\ next_item_id' = r.self.next_item_id
        /\ item_str_to_id' = r.self.item_str_to_id
        /\ item_id_to_str' = r.self.item_id_to_str
        /\ panicked' = (r.outcome = "panicked")
        /\ last' = Call("id_of_opt", item, r.outcome,
                        IF r.outcome = "returned" THEN Some(r.ret) ELSE None)
    /\ prev' = last
    /\ UNCHANGED << overflow_checks, passed, issued >>
    /\ UNCHANGED << other_vars, item_vars, twin_vars >>

IdOfOpt(item) ==
    /\ ~panicked
    /\ last' = Call("id_of_opt", item, "returned", id_of_opt(Self, item))
    /\ prev' = last
    /\ UNCHANGED << next_item_id, item_str_to_id, item_id_to_str,
                    overflow_checks, panicked, passed, issued >>
    /\ UNCHANGED << other_vars, item_vars, twin_vars >>

ValueOf(id) ==
    /\ ~panicked
    /\ LET r == value_of(Self, id) IN
        /\ panicked' = (r.outcome = "panicked")
        /\ last' = Call("value_of", id, r.outcome, r.ret)
    /\ prev' = last
    /\ UNCHANGED << next_item_id, item_str_to_id, item_id_to_str,
                    overflow_checks, passed, issued >>
    /\ UNCHANGED << other_vars, item_vars, twin_vars >>

LenCall ==
    /\ ~panicked
    /\ last' = Call("len", None, "returned", len(Self))
    /\ prev' = last
    /\ UNCHANGED << next_item_id, item_str_to_id, item_id_to_str,
                    overflow_checks, panicked, passed, issued >>
    /\ UNCHANGED << other_vars, item_vars, twin_vars >>

IterCall ==
    /\ ~panicked
    /\ last' = Call("iter", None, "returned", collect(iter(Self)))
    /\ prev' = last
    /\ UNCHANGED << next_item_id, item_str_to_id, item_id_to_str,
                    overflow_checks, panicked, passed, issued >>
    /\ UNCHANGED << other_vars, item_vars, twin_vars >>

Next ==
    \/ \E item \in Values : IdOf(item)
    \/ \E item \in Values : IdOfOpt(item)
    \/ \E id \in 0 .. MaxItemId : ValueOf(with_id(id))
    \/ LenCall
    \/ IterCall

Spec == Init /\ [][Next]_vars

----------------------------------------------------------------------------
\* Item on its own: a caller builds two Items from raw ids and then takes
\* their indices, compares them for equality and orders them.

RawIds == 0 .. MaxItemId

InitItem ==
    /\ next_item_id = new.next_item_id
    /\ item_str_to_id = new.item_str_to_id
    /\ item_id_to_str = new.item_id_to_str
    /\ overflow_checks \in BOOLEAN
    /\ panicked = FALSE
    /\ last = [op |-> "new", arg |-> None, outcome |-> "returned",
               ret |-> None, pre |-> new]
    /\ prev = [op |-> "none", arg |-> None, outcome |-> "returned",
               ret |-> None, pre |-> new]
    /\ passed = << >>
    /\ issued = EmptyMap
    /\ others = [inst \in OtherInstances |-> new]
    /\ other_passed = [inst \in OtherInstances |-> << >>]
    /\ other_issued = [inst \in OtherInstances |-> EmptyMap]
    /\ item_in \in RawIds \X RawIds
    /\ item_out = ItemNothingYet
    /\ twin = new
    /\ twin_ret = [outcome |-> "returned", ret |-> None]

ItemWithId ==
    /\ item_out.items = None
    /\ item_out' = [item_out EXCEPT
                       !.items = Some(<< with_id(item_in[1]),
                                         with_id(item_in[2]) >>)]
    /\ UNCHANGED << itemizer_vars, other_vars, item_in, twin_vars >>

ItemAsIndex ==
    /\ item_out.items # None
    /\ item_out.index = None
    /\ item_out' = [item_out EXCEPT
                       !.index = Some(<< as_index(item_out.items[1][1]),
                                         as_index(item_out.items[1][2]) >>)]
    /\ UNCHANGED << itemizer_vars, other_vars, item_in, twin_vars >>

ItemEq ==
    /\ item_out.items # None
    /\ item_out.eq = None
    /\ item_out' = [item_out EXCEPT
                       !.eq = Some(item_eq(item_out.items[1][1],
                                           item_out.items[1][2]))]
    /\ UNCHANGED << itemizer_vars, other_vars, item_in, twin_vars >>

ItemCmp ==
    /\ item_out.items # None
    /\ item_out.cmp = None
    /\ item_out' = [item_out EXCEPT
                       !.cmp = Some(item_cmp(item_out.items[1][1],
                                             item_out.items[1][2]))]
    /\ UNCHANGED << itemizer_vars, other_vars, item_in, twin_vars >>

NextItem ==
    \/ ItemWithId
    \/ ItemAsIndex
    \/ ItemEq
    \/ ItemCmp

SpecItem == InitItem /\ [][NextItem]_vars

----------------------------------------------------------------------------
\* Several Itemizer instances side by side (test_different_types)

\* The id_of call on a further instance with one slip: the counter is a
\* single one shared by all instances instead of a field of each.
OtherIdOf_shared_counter(inst, item) ==
    /\ ~panicked
    /\ item \in OtherValues(inst)
    /\ LET shared == [others[inst] EXCEPT !.next_item_id = next_item_id]
           r == id_of(shared, item, overflow_checks)
       IN
        /\ others' = [others EXCEPT ![inst] = r.self]
        /\ next_item_id' = r.self.next_item_id
        /\ panicked' = (r.outcome = "panicked")
        /\ other_passed' =
               [other_passed EXCEPT
                   ![inst] = IF item \in Range(@) THEN @ ELSE Append(@, item)]
        /\ other_issued' =
               [other_issued EXCEPT
                   ![inst] = IF r.outcome = "returned" /\ item \notin DOMAIN @
                             THEN map_insert(@, item, r.ret)
                             ELSE @]
    /\ UNCHANGED << item_str_to_id, item_id_to_str, overflow_checks,
                    last, prev, passed, issued, item_vars, twin_vars >>

OtherIdOf(inst, item) ==
    /\ ~panicked
    /\ item \in OtherValues(inst)
    /\ LET r == id_of(others[inst], item, overflow_checks) IN
        /\ others' = [others EXCEPT ![inst] = r.self]
        /\ panicked' = (r.outcome = "panicked")
        /\ other_passed' =
               [other_passed EXCEPT
                   ![inst] = IF item \in Range(@) THEN @ ELSE Append(@, item)]
        /\ other_issued' =
               [other_issued EXCEPT
                   ![inst] = IF r.outcome = "returned" /\ item \notin DOMAIN @
                             THEN map_insert(@, item, r.ret)
                             ELSE @]
    /\ UNCHANGED << next_item_id, item_str_to_id, item_id_to_str,
                    overflow_checks, last, prev, passed, issued,
                    item_vars, twin_vars >>

\* Each instance is handed two values of its type, in any order and any
\* number of times, the calls on the instances interleaved in any way.
NextTwo ==
    \/ \E item \in OtherValues("same_type") : IdOf(item)
    \/ \E item \in OtherValues("same_type") : OtherIdOf("same_type", item)
    \/ \E item \in OtherValues("other_type") : OtherIdOf("other_type", item)

SpecTwo == Init /\ [][NextTwo]_vars

----------------------------------------------------------------------------
\* Two runs of the program, each from a fresh Itemizer, given the same
\* id_of arguments.  The first run also makes id_of_opt, value_of, len and
\* iter calls between them, in any number and order; the second makes none.

BothIdOf(item) ==
    /\ IdOfCall(item)
    /\ LET r == id_of(twin, item, overflow_checks) IN
        /\ twin' = r.self
        /\ twin_ret' = [outcome |-> r.outcome, ret |-> r.ret]
    /\ UNCHANGED << other_vars, item_vars >>

NextRuns ==
    \/ \E item \in Values : BothIdOf(item)
    \/ \E item \in Values : IdOfOpt(item)
    \/ \E id \in 0 .. MaxItemId : ValueOf(with_id(id))
    \/ LenCall
    \/ IterCall

SpecRuns == Init /\ [][NextRuns]_vars

----------------------------------------------------------------------------
\* Shorthands used by the properties below

\* The last call was op and it returned (it did not panic).
Did(call, op) == call.op = op /\ call.outcome = "returned"

\* The value was interned in the state the call started from.
InternedBefore(call, value) == value \in DOMAIN call.pre.item_str_to_id

NoDuplicates(seq) ==
    \A j, k \in 1 .. Len(seq) : j # k => seq[j] # seq[k]

----------------------------------------------------------------------------
\* C1: in every reachable state the two mappings agree: every value v
\* of the forward map, mapped to Item i, is the value the reverse sequence
\* holds at i.as_index() (value_of(i) returns v), and every position k of
\* the reverse sequence holds a value the forward map maps to the Item
\* with id k.
C1_MappingsAgree ==
    /\ \A v \in DOMAIN item_str_to_id :
          value_of(Self, item_str_to_id[v]) = Returned(Self, v)
    /\ \A k \in 0 .. Len(item_id_to_str) - 1 :
          map_get(item_str_to_id, item_id_to_str[k + 1]) = Some(with_id(k))

\* Three values are interned, a hit and reads have happened in between.
C1_Witness ==
    /\ ~panicked
    /\ Len(item_id_to_str) = 3
    /\ Did(prev, "id_of") /\ InternedBefore(prev, prev.arg)
    /\ Did(last, "value_of")

\* C2: in every state reached after a call completes, the length of the
\* reverse sequence, the counter next_item_id and the number of keys of the
\* forward map are equal; in the freshly constructed Itemizer all three
\* are 0.
C2_SizesAgree ==
    /\ ~panicked =>
          /\ Len(item_id_to_str) = next_item_id
          /\ next_item_id = Cardinality(DOMAIN item_str_to_id)
    /\ last.op = "new" =>
          /\ Len(item_id_to_str) = 0
          /\ next_item_id = 0
          /\ Cardinality(DOMAIN item_str_to_id) = 0

\* The counter has reached its largest value and the sizes still agree.
C2_Witness ==
    /\ ~panicked
    /\ next_item_id = MaxItemId
    /\ Did(last, "id_of") /\ ~InternedBefore(last, last.arg)

\* C3: id_of on a value that is already interned returns the Item that the
\* first id_of call on that value returned and leaves the counter, the
\* forward map and the reverse sequence as they were.
C3_HitReturnsFirstItem ==
    (last.op = "id_of" /\ InternedBefore(last, last.arg)) =>
        /\ last.outcome = "returned"
        /\ last.arg \in DOMAIN issued
        /\ last.ret = issued[last.arg]
        /\ Self = last.pre

\* The first value interned is asked for again after two others went in.
C3_Witness ==
    /\ Did(last, "id_of")
    /\ InternedBefore(last, last.arg)
    /\ Len(last.pre.item_id_to_str) = 3
    /\ last.pre.item_id_to_str[1] = last.arg

\* C4: an id_of call on a value that is not yet interned, when it returns,
\* returns the Item whose index is len() as it was before the call, and
\* the counter has grown by one, the forward map is the old one plus the
\* new value mapped to that Item, the reverse sequence is the old one with
\* the new value appended.
C4_MissAppendsOne ==
    (Did(last, "id_of") /\ ~InternedBefore(last, last.arg)) =>
        /\ as_index(last.ret) = len(last.pre)
        /\ last.ret = with_id(len(last.pre))
        /\ next_item_id = last.pre.next_item_id + 1
        /\ DOMAIN item_str_to_id =
               (DOMAIN last.pre.item_str_to_id) \cup {last.arg}
        /\ item_str_to_id[last.arg] = last.ret
        /\ \A v \in DOMAIN last.pre.item_str_to_id :
               item_str_to_id[v] = last.pre.item_str_to_id[v]
        /\ Len(item_id_to_str) = Len(last.pre.item_id_to_str) + 1
        /\ item_id_to_str[as_index(last.ret) + 1] = last.arg
        /\ SubSeq(item_id_to_str, 1, Len(last.pre.item_id_to_str)) =
               last.pre.item_id_to_str

\* A third value is interned into an Itemizer that holds two.
C4_Witness ==
    /\ Did(last, "id_of")
    /\ ~InternedBefore(last, last.arg)
    /\ len(last.pre) = 2
    /\ last.ret = with_id(2)

\* C5: when id_of(v) is called twice in succession, both calls return the
\* same Item; len() grows by 1 over the first call if v was new and by 0
\* if it was interned, and by 0 over the second call.
C5_TwiceInSuccession ==
    (Did(prev, "id_of") /\ last.op = "id_of" /\ last.arg = prev.arg) =>
        /\ last.outcome = "returned"
        /\ last.ret = prev.ret
        /\ len(last.pre) - len(prev.pre) =
               (IF InternedBefore(prev, prev.arg) THEN 0 ELSE 1)
        /\ len(Self) - len(last.pre) = 0

\* The first of the two calls interned a new value next to another one.
C5_Witness ==
    /\ Did(prev, "id_of") /\ Did(last, "id_of")
    /\ last.arg = prev.arg
    /\ ~InternedBefore(prev, prev.arg)
    /\ len(prev.pre) = 1

\* C6: density.  After any sequence of completed calls the Item indices
\* handed out by id_of are exactly 0 .. len() - 1, and for every i in that
\* range exactly one value v has value_of(Item::with_id(i)) = v; that
\* value is interned and id_of(v).as_index() = i.
C6_Density ==
    ~panicked =>
        /\ {as_index(issued[v]) : v \in DOMAIN issued} = 0 .. len(Self) - 1
        /\ \A i \in 0 .. len(Self) - 1 :
              LET holders == {v \in Values :
                                 value_of(Self, with_id(i)) = Returned(Self, v)}
              IN
              /\ Cardinality(holders) = 1
              /\ holders \subseteq DOMAIN issued
              /\ \A v \in holders :
                    LET r == id_of(Self, v, overflow_checks) IN
                    /\ r.outcome = "returned"
                    /\ as_index(r.ret) = i

\* Three values are interned and the one at the last index is read back.
C6_Witness ==
    /\ ~panicked
    /\ len(Self) = 3
    /\ Did(last, "value_of")
    /\ last.arg = with_id(2)

\* C7: distinctness.  In every reachable state two different values never
\* have the same Item: the forward map is injective, the reverse sequence
\* holds no value twice, and no two values were given the same Item by
\* id_of.
C7_Distinct ==
    /\ \A v1, v2 \in DOMAIN item_str_to_id :
          v1 # v2 => item_str_to_id[v1] # item_str_to_id[v2]
    /\ NoDuplicates(item_id_to_str)
    /\ \A v1, v2 \in DOMAIN issued : v1 # v2 => issued[v1] # issued[v2]

\* Three different values have their Items and one is asked for again.
C7_Witness ==
    /\ Cardinality(DOMAIN issued) = 3
    /\ Did(last, "id_of")
    /\ InternedBefore(last, last.arg)
    /\ Did(prev, "id_of")
    /\ ~InternedBefore(prev, prev.arg)

\* C8: id_of_opt(v) returns None exactly when v has never been passed to
\* id_of, and otherwise Some of the Item that id_of(v) returned; right
\* after an id_of(v) call it returns Some of that call's Item.
C8_IdOfOpt ==
    /\ last.op = "id_of_opt" =>
          /\ last.outcome = "returned"
          /\ (last.ret = None) <=> (last.arg \notin Range(passed))
          /\ last.arg \in Range(passed) =>
                /\ last.arg \in DOMAIN issued
                /\ last.ret = Some(issued[last.arg])
    /\ (Did(prev, "id_of") /\ last.op = "id_of_opt" /\ last.arg = prev.arg)
          => last.ret = Some(prev.ret)

\* A second value is interned by id_of and then looked up by id_of_opt.
C8_Witness ==
    /\ Did(prev, "id_of")
    /\ ~InternedBefore(prev, prev.arg)
    /\ len(prev.pre) = 1
    /\ Did(last, "id_of_opt")
    /\ last.arg = prev.arg
    /\ last.ret = Some(with_id(1))

\* Some value is looked up that was never passed to id_of, in an Itemizer
\* that holds others.
C8_WitnessAbsent ==
    /\ Did(last, "id_of_opt")
    /\ last.ret = None
    /\ len(Self) = 2

\* C9: iter() yields exactly len() values, each interned value once, in
\* the order in which the values were first passed to id_of, so that the
\* k-th value yielded is the one whose Item has index k; a second iter()
\* on the same state yields the same sequence.
C9_IterFirstSeenOrder ==
    /\ last.op = "iter" =>
          /\ last.outcome = "returned"
          /\ Len(last.ret) = len(Self)
          /\ last.ret = passed
          /\ NoDuplicates(last.ret)
          /\ Range(last.ret) = DOMAIN issued
          /\ \A k \in 1 .. Len(last.ret) :
                as_index(issued[last.ret[k]]) = k - 1
    /\ (prev.op = "iter" /\ last.op = "iter") => last.ret = prev.ret

\* Three values went in, not in the order of the values themselves, and
\* iter is called twice.
C9_Witness ==
    /\ Did(prev, "iter") /\ Did(last, "iter")
    /\ Len(last.ret) = 3
    /\ last.ret[1] > last.ret[2]

\* C10: after any sequence of completed calls len() is the number of
\* different values passed to id_of so far; id_of_opt, value_of, len and
\* iter calls leave it as it was.
C10_LenCountsDistinct ==
    /\ ~panicked => len(Self) = Cardinality(Range(passed))
    /\ Did(last, "len") => last.ret = Cardinality(Range(passed))
    /\ (last.op \in {"id_of_opt", "value_of", "len", "iter"}
            /\ last.outcome = "returned")
          => len(Self) = len(last.pre)

\* len() is called after a value was passed to id_of a second time.
C10_Witness ==
    /\ Did(last, "len")
    /\ last.ret = 2
    /\ Did(prev, "id_of")
    /\ InternedBefore(prev, prev.arg)

ReadOnlyOps == {"id_of_opt", "value_of", "len", "iter"}

IsPrefix(short, long) ==
    /\ Len(short) <= Len(long)
    /\ SubSeq(long, 1, Len(short)) = short

\* C11: id_of_opt, value_of, len and iter never mutate the Itemizer: after
\* each of them, whatever it returned (also id_of_opt on a value that is
\* not interned), the counter, the forward map and the reverse sequence
\* are as they were before the call.
C11_ReadOnlyCallsKeepState ==
    last.op \in ReadOnlyOps =>
        /\ next_item_id = last.pre.next_item_id
        /\ item_str_to_id = last.pre.item_str_to_id
        /\ item_id_to_str = last.pre.item_id_to_str

\* id_of_opt has just answered None on an Itemizer that holds two values.
C11_Witness ==
    /\ Did(last, "id_of_opt")
    /\ last.ret = None
    /\ ~InternedBefore(last, last.arg)
    /\ len(last.pre) = 2
    /\ prev.op \in ReadOnlyOps

\* C12: the Itemizer only grows and never reassigns.  Over every step the
\* reverse sequence before is a prefix of the one after and every entry of
\* the forward map is still there with the same Item, so len() never
\* decreases; and in every state each Item that id_of returned for a value
\* still denotes that value.
C12_StepGrows ==
    /\ IsPrefix(item_id_to_str, item_id_to_str')
    /\ \A v \in DOMAIN item_str_to_id :
          /\ v \in DOMAIN item_str_to_id'
          /\ item_str_to_id'[v] = item_str_to_id[v]
    /\ Len(item_id_to_str') >= Len(item_id_to_str)

C12_ItemsStillDenote ==
    \A v \in DOMAIN issued : value_of(Self, issued[v]) = Returned(Self, v)

C12_GrowsNeverReassigns ==
    [][C12_StepGrows]_vars /\ []C12_ItemsStillDenote

\* Two values were interned one after the other.
C12_Witness ==
    /\ Did(prev, "id_of") /\ ~InternedBefore(prev, prev.arg)
    /\ Did(last, "id_of") /\ ~InternedBefore(last, last.arg)
    /\ len(Self) = 3

\* C13: value_of returns the stored value for every Item whose index is in
\* [0, len()); for any other Item the call panics: it yields no value and
\* no error result, and the Itemizer is as it was before the call.
C13_ValueOf ==
    last.op = "value_of" =>
        /\ IF as_index(last.arg) < len(last.pre)
           THEN /\ last.outcome = "returned"
                /\ last.ret = last.pre.item_id_to_str[as_index(last.arg) + 1]
           ELSE /\ last.outcome = "panicked"
                /\ last.ret = None
                /\ panicked
        /\ Self = last.pre

\* value_of(Item::with_id(len())) was called on an Itemizer of two values.
C13_Witness ==
    /\ last.op = "value_of"
    /\ last.outcome = "panicked"
    /\ len(last.pre) = 2
    /\ last.arg = with_id(len(last.pre))

\* value_of was called on the empty Itemizer.
C13_WitnessEmpty ==
    /\ last.op = "value_of"
    /\ last.outcome = "panicked"
    /\ len(last.pre) = 0

\* value_of has returned the value at the last index.
C13_WitnessInRange ==
    /\ Did(last, "value_of")
    /\ len(last.pre) = 3
    /\ last.arg = with_id(2)
    /\ last.ret = last.pre.item_id_to_str[3]

\* C16: id_of does not fail under normal operation.  A call made while
\* fewer values are interned than the id type's largest value returns an
\* Item, and on the insert path the assertion on line 84 holds: the length
\* of the reverse sequence is the new id plus one.
C16_IdOfReturns ==
    (last.op = "id_of" /\ len(last.pre) < MaxItemId) =>
        /\ last.outcome = "returned"
        /\ ~panicked
        /\ last.ret \in {with_id(id) : id \in 0 .. MaxItemId}
        /\ ~InternedBefore(last, last.arg) =>
              Len(item_id_to_str) = as_index(last.ret) + 1

\* The last value that fits has been interned, the counter is now at the
\* largest value of its type.
C16_Witness ==
    /\ Did(last, "id_of")
    /\ ~InternedBefore(last, last.arg)
    /\ len(last.pre) = MaxItemId - 1
    /\ next_item_id = MaxItemId
    /\ ~overflow_checks

\* C17: failure at the counter's limit is free of side effects.  When
\* id_of is called with a new value while next_item_id is the largest
\* value of its type, the call fails and the counter, the forward map and
\* the reverse sequence are as before the call, so that the sizes are
\* still equal.
C17_OverflowLeavesState ==
    (last.op = "id_of" /\ ~InternedBefore(last, last.arg)
         /\ last.pre.next_item_id = MaxItemId) =>
        /\ last.outcome = "panicked"
        /\ next_item_id = last.pre.next_item_id
        /\ item_str_to_id = last.pre.item_str_to_id
        /\ item_id_to_str = last.pre.item_id_to_str
        /\ Len(item_id_to_str) = next_item_id
        /\ next_item_id = Cardinality(DOMAIN item_str_to_id)

\* What the code does there: the call fails in either build.
C17_OverflowFails ==
    (last.op = "id_of" /\ ~InternedBefore(last, last.arg)
         /\ last.pre.next_item_id = MaxItemId) =>
        /\ last.outcome = "panicked"
        /\ panicked

\* What the code does there when overflow is checked: nothing has changed.
C17_CheckedOverflowLeavesState ==
    (last.op = "id_of" /\ ~InternedBefore(last, last.arg)
         /\ last.pre.next_item_id = MaxItemId /\ overflow_checks) =>
        Self = last.pre

\* The call at the limit, in the build that wraps: the counter is back at
\* 0 and both mappings hold one entry more.
C17_WrappedState ==
    /\ last.op = "id_of"
    /\ last.pre.next_item_id = MaxItemId
    /\ ~overflow_checks
    /\ panicked
    /\ next_item_id = 0
    /\ Len(item_id_to_str) = MaxItemId + 1
    /\ Cardinality(DOMAIN item_str_to_id) = MaxItemId + 1

\* C14: Itemizer instances are independent.  A call on one instance
\* leaves every other instance as it was, and the Items an instance
\* returns depend on the id_of calls made on that instance alone: the k-th
\* different value passed to an instance gets the Item with id k - 1,
\* whatever was passed to the other instances, of the same or of another
\* value type.
C14_StepLeavesTheOthers ==
    /\ \A item \in Values : IdOf(item) => others' = others
    /\ \A inst \in OtherInstances : \A item \in OtherValues(inst) :
          OtherIdOf(inst, item) =>
              /\ Self' = Self
              /\ \A j \in OtherInstances \ {inst} : others'[j] = others[j]

\* The instance (its fields, and the Items it has returned) is what the
\* values passed to it, in first-passed order, make it.
NumberedFromZero(self, first_passed, returned) ==
    /\ self.item_id_to_str = first_passed
    /\ self.next_item_id = Len(first_passed)
    /\ DOMAIN self.item_str_to_id = Range(first_passed)
    /\ DOMAIN returned = Range(first_passed)
    /\ \A k \in 1 .. Len(first_passed) :
          /\ self.item_str_to_id[first_passed[k]] = with_id(k - 1)
          /\ returned[first_passed[k]] = with_id(k - 1)

C14_OwnNumbering ==
    ~panicked =>
        /\ NumberedFromZero(Self, passed, issued)
        /\ \A inst \in OtherInstances :
              NumberedFromZero(others[inst], other_passed[inst],
                               other_issued[inst])

C14_Independent ==
    [][C14_StepLeavesTheOthers]_vars /\ []C14_OwnNumbering

\* Three instances have been used; the first and the one of the same type
\* hold the same two values under different Items.
C14_Witness ==
    /\ ~panicked
    /\ len(Self) = 2
    /\ len(others["same_type"]) = 2
    /\ len(others["other_type"]) = 2
    /\ 1 \in DOMAIN item_str_to_id
    /\ item_str_to_id[1] # others["same_type"].item_str_to_id[1]

\* C15: for every id of the Item's integer type, with_id(id).as_index()
\* is id; two Items are equal exactly when their ids are equal; and the
\* order of two Items is the numeric order of their ids.
C15_ItemIsItsId ==
    /\ item_out.index # None => item_out.index[1] = item_in
    /\ item_out.eq # None =>
          (item_out.eq[1] <=> (item_in[1] = item_in[2]))
    /\ item_out.cmp # None =>
          /\ (item_out.cmp[1] = "Less") <=> (item_in[1] < item_in[2])
          /\ (item_out.cmp[1] = "Equal") <=> (item_in[1] = item_in[2])
          /\ (item_out.cmp[1] = "Greater") <=> (item_in[1] > item_in[2])

\* The largest id and a smaller one: indices taken, compared, ordered.
C15_Witness ==
    /\ item_in = << MaxItemId, MaxItemId - 1 >>
    /\ item_out.index = Some(item_in)
    /\ item_out.eq = Some(FALSE)
    /\ item_out.cmp = Some("Greater")

\* Two Items built from the same id.
C15_WitnessEqual ==
    /\ item_in[1] = item_in[2]
    /\ item_out.eq = Some(TRUE)
    /\ item_out.cmp = Some("Equal")

====
